---- MODULE Spec2Model ----
(***************************************************************************)
(* Model of the diskmaker daemon of local-storage-operator                 *)
(* (pkg/diskmaker): Run, loadConfig, symLinkDisks, findMatchingDisks and   *)
(* their helpers, over a small host filesystem.                            *)
(*                                                                         *)
(* A Go string is a sequence of one-character strings; a path is the       *)
(* sequence of its components; the empty string "" is the empty sequence.  *)
(***************************************************************************)
EXTENDS Integers, Sequences, FiniteSets, TLC

\* ------------------------------------------------------------------ bounds
\* cycles (ticks that load a configuration) per behaviour
MaxCycles == 2
\* host changes (mount, unplug, relink, ...) per behaviour
MaxHostChanges == 1
\* length of the listing text given to findNewDisks on its own
MaxContentLen == 5
\* length of the directory and class strings given to generateBindName on its own
MaxNameLen == 2

\* ----------------------------------------------------------------- strings
EmptyStr == <<>>

Ascii ==
  (" " :> 32) @@ ("\n" :> 10) @@ ("\t" :> 9) @@ ("\r" :> 13) @@
  ("-" :> 45) @@ ("." :> 46) @@ ("/" :> 47) @@
  ("0" :> 48) @@ ("1" :> 49) @@ ("2" :> 50) @@ ("3" :> 51) @@ ("4" :> 52) @@
  ("5" :> 53) @@ ("6" :> 54) @@ ("7" :> 55) @@ ("8" :> 56) @@ ("9" :> 57) @@
  ("a" :> 97) @@ ("b" :> 98) @@ ("c" :> 99) @@ ("d" :> 100) @@ ("e" :> 101) @@
  ("f" :> 102) @@ ("g" :> 103) @@ ("h" :> 104) @@ ("i" :> 105) @@ ("j" :> 106) @@
  ("k" :> 107) @@ ("l" :> 108) @@ ("m" :> 109) @@ ("n" :> 110) @@ ("o" :> 111) @@
  ("p" :> 112) @@ ("q" :> 113) @@ ("r" :> 114) @@ ("s" :> 115) @@ ("t" :> 116) @@
  ("u" :> 117) @@ ("v" :> 118) @@ ("w" :> 119) @@ ("x" :> 120) @@ ("y" :> 121) @@
  ("z" :> 122)

\* unicode.IsSpace on the characters a listing can hold
isSpace(c) == c \in {" ", "\n", "\t", "\r"}

RECURSIVE TrimLeft(_)
TrimLeft(s) ==
  CHOOSE r \in { IF t # <<>> /\ isSpace(Head(t)) THEN TrimLeft(Tail(t)) ELSE t : t \in {s} } :
    TRUE

RECURSIVE TrimRight(_)
TrimRight(s) ==
  CHOOSE r \in { IF t # <<>> /\ isSpace(t[Len(t)])
                 THEN TrimRight(SubSeq(t, 1, Len(t) - 1)) ELSE t : t \in {s} } :
    TRUE

\* strings.TrimSpace
TrimSpace(s) == TrimRight(TrimLeft(s))

\* strings.Split(s, sep) for a one-character separator: the pieces between
\* every two occurrences, empty pieces included; no occurrence gives <<s>>
RECURSIVE Split(_, _)
Split(s, sep) ==
  CHOOSE r \in
    { IF \E i \in 1..Len(t) : t[i] = sep
      THEN LET i == CHOOSE k \in 1..Len(t) :
                      t[k] = sep /\ \A j \in 1..(k - 1) : t[j] # sep
           IN  <<SubSeq(t, 1, i - 1)>> \o Split(SubSeq(t, i + 1, Len(t)), sep)
      ELSE <<t>> : t \in {s} } :
    TRUE

\* byte-wise string order, as sort.Strings uses
RECURSIVE StrLess(_, _)
StrLess(a, b) ==
  IF b = <<>> THEN FALSE
  ELSE IF a = <<>> THEN TRUE
  ELSE IF Ascii[Head(a)] # Ascii[Head(b)] THEN Ascii[Head(a)] < Ascii[Head(b)]
  ELSE StrLess(Tail(a), Tail(b))

\* ------------------------------------------------------------------- paths
Dot == <<".">>

\* the string of an absolute path: "/" before every component
RECURSIVE PathString(_)
PathString(p) ==
  IF p = <<>> THEN <<>> ELSE <<"/">> \o Head(p) \o PathString(Tail(p))

\* filepath.Base: the last component; "." for the empty string
Base(p) == IF p = EmptyStr THEN Dot ELSE p[Len(p)]

\* path.Join that keeps "." components
JoinNoClean(a, b) == a \o b
\* path.Join: the components of both, cleaned of "." components
Join(a, b) == SelectSeq(a \o b, LAMBDA c : c # Dot)

\* sets.String.List(): the members in sorted order
RECURSIVE List(_)
List(S) ==
  IF S = {} THEN <<>>
  ELSE LET m == CHOOSE x \in S :
                  \A y \in S \ {x} : StrLess(PathString(x), PathString(y))
       IN  <<m>> \o List(S \ {m})

\* ---------------------------------------------------------- generateBindName
RECURSIVE xor(_, _, _)
xor(a, b, n) ==
  IF n = 0 THEN 0 ELSE ((a + b) % 2) + 2 * xor(a \div 2, b \div 2, n - 1)

\* XOR of two bytes, tabulated
xor8 == [a \in 0..255 |-> [b \in 0..127 |-> xor(a, b, 8)]]

\* one byte of FNV-1a on 32 bits; h is <<high 16 bits, low 16 bits>>:
\* h = (h XOR b) * 16777619 mod 2^32, and 16777619 = 2^24 + 403
fnvByte(h, b) ==
  LET lo == (h[2] \div 256) * 256 + xor8[h[2] % 256][b]
      p  == lo * 403
  IN  << (h[1] * 403 + (p \div 65536) + (lo % 256) * 256) % 65536, p % 65536 >>

\* hash.Write on fnv.New32a
RECURSIVE fnvWrite(_, _)
fnvWrite(h, s) ==
  IF s = <<>> THEN h
  ELSE CHOOSE r \in { fnvWrite(fnvByte(x, Ascii[Head(t)]), Tail(t)) : x \in {h}, t \in {s} } :
         TRUE

HexDigit(d) ==
  <<"0", "1", "2", "3", "4", "5", "6", "7", "8", "9", "a", "b", "c", "d", "e", "f">>[d + 1]

\* the n low hexadecimal digits of v
RECURSIVE HexPad(_, _)
HexPad(v, n) ==
  IF n = 0 THEN <<>> ELSE HexPad(v \div 16, n - 1) \o <<HexDigit(v % 16)>>

\* %x of v: no leading zeros
RECURSIVE Hex(_)
Hex(v) == IF v < 16 THEN <<HexDigit(v)>> ELSE Hex(v \div 16) \o <<HexDigit(v % 16)>>

\* Sum32 rendered by %x
Hex32(h) == IF h[1] = 0 THEN Hex(h[2]) ELSE Hex(h[1]) \o HexPad(h[2], 4)

\* generateBindName that leaves the class out of the hash
generateBindNameFileOnly(file, class) ==
  LET h == fnvWrite(<<33052, 40389>>, file)
  IN  <<"l", "o", "c", "a", "l", "-", "s", "h", "a", "r", "e", "d", "-">> \o Hex32(h)
generateBindName(file, class) ==
  CHOOSE r \in { <<"l", "o", "c", "a", "l", "-", "s", "h", "a", "r", "e", "d", "-">> \o Hex32(h) :
                   h \in {fnvWrite(fnvWrite(<<33052, 40389>>, file), class)} } :
    TRUE

\* ------------------------------------------------------------- findNewDisks
\* findNewDisks without the test that the line has one field only
findNewDisksFirstField(content) ==
  LET deviceLines == Split(content, "\n")
      deviceDetails == [i \in 1..Len(deviceLines) |-> Split(TrimSpace(deviceLines[i]), " ")]
  IN  UNION { { details[i][1] :
                  i \in { j \in 1..Len(details) : Len(details[j][1]) > 0 } } :
              details \in {deviceDetails} }

findNewDisks(content) ==
  LET deviceLines == Split(content, "\n")
      deviceDetails == [i \in 1..Len(deviceLines) |-> Split(TrimSpace(deviceLines[i]), " ")]
  IN  UNION { { details[i][1] :
                  i \in { j \in 1..Len(details) :
                            Len(details[j]) = 1 /\ Len(details[j][1]) > 0 } } :
              details \in {deviceDetails} }

\* hasExactDisk without the comparison: any member will do
hasExactDiskAny(disks, device) == \E disk \in disks : TRUE

\* hasExactDisk
hasExactDisk(disks, device) == \E disk \in disks : disk = device


\* ---------------------------------------------------------------- the host
dev == <<"d", "e", "v">>
sdb == <<"s", "d", "b">>
sdc == <<"s", "d", "c">>
ataX == <<"a", "t", "a", "-", "x">>
ataY == <<"a", "t", "a", "-", "y">>
ssd == <<"s", "s", "d">>
nfs == <<"n", "f", "s">>
shared1 == <<"s", "h", "a", "r", "e", "d", "1">>

\* block devices, stable identifiers, storage classes and shared directories
\* of the modelled host and configurations
Devs == {sdb, sdc}
Ids == {ataX, ataY}
Classes == {ssd, nfs}
Dirs == {shared1}

DevPath(n) == <<dev, n>>
\* an entry of diskByIDPath = "/dev/disk/by-id/*"
ById(i) == <<dev, <<"d", "i", "s", "k">>, <<"b", "y", "-", "i", "d">>, i>>
rootfsDir == << <<"r", "o", "o", "t", "f", "s">> >>
\* DiskMaker.symlinkLocation
symlinkLocation == << <<"m", "n", "t">>, <<"l", "o", "c", "a", "l">> >>
\* the mount point lsblk prints for a mounted device
MountDir == <<"/", "v", "a", "r">>

\* filesystem nodes
DirNode == [kind |-> "dir", target |-> EmptyStr]
FileNode == [kind |-> "file", target |-> EmptyStr]
BlkNode == [kind |-> "blk", target |-> EmptyStr]
LinkNode(t) == [kind |-> "link", target |-> t]

\* DiskLocation{diskNamePath, diskID, directoryPath}
DiskLocation(diskName, stableDeviceID, directoryPath) ==
  [diskNamePath |-> diskName, diskID |-> stableDeviceID, directoryPath |-> directoryPath]

\* DiskConfig.Disks: storage class -> device names, device IDs, directories
Disks(names, ids, dirs) ==
  [DeviceNames |-> names, DeviceIDs |-> ids, DirectoryPaths |-> dirs]

NoDisks == Disks({}, {}, <<>>)

\* the configurations the configuration file takes
Configs ==
  { (ssd :> Disks({DevPath(sdb)}, {ById(ataX)}, <<>>)),
    (ssd :> Disks({DevPath(sdb), DevPath(sdc)}, {}, <<>>)) @@
      (nfs :> Disks({}, {}, <<shared1>>)),
    (ssd :> Disks({}, {ById(ataX), ById(ataY)}, <<>>)) @@
      (nfs :> Disks({}, {ById(ataY)}, <<shared1>>)),
    (ssd :> Disks({}, {}, <<shared1>>)) @@ (nfs :> Disks({}, {}, <<shared1>>)),
    (ssd :> Disks({}, {ById(ataY)}, <<>>)) @@ (nfs :> NoDisks) }

\* the value of diskConfig outside a cycle
NoConfig == <<>>

VARIABLES
  fs,             \* host filesystem: path -> node, for the paths that exist
  mountpoint,     \* block device -> its mount point, "" when not mounted
  configFile,     \* what loadConfig parses from DiskMaker.configLocation
  hostChanges,    \* host changes so far
  cycles,         \* ticks so far
  pc,             \* where Run is
  diskConfig,     \* the configuration symLinkDisks was called with
  out,            \* stdout of lsblk
  deviceSet,      \* result of findNewDisks
  allDiskIds,     \* result of filepath.Glob(diskByIDPath)
  matchQueue,     \* selectors findMatchingDisks still has to visit, in order
  blockDeviceMap, \* storage class -> DiskLocation list, built by addDiskToMap
  linkQueue,      \* assignments the loop of symLinkDisks still has to visit
  trace,          \* the steps of the current cycle, with their events and calls
  fs0             \* the filesystem when the current cycle started

vars ==
  << fs, mountpoint, configFile, hostChanges, cycles, pc, diskConfig, out,
     deviceSet, allDiskIds, matchQueue, blockDeviceMap, linkQueue, trace, fs0 >>

hostVars == <<fs, mountpoint, configFile, hostChanges>>
cycleVars == <<diskConfig, out, deviceSet, allDiskIds, matchQueue, blockDeviceMap, linkQueue>>

\* -------------------------------------------------------- filesystem calls
\* filepath.EvalSymlinks: the path reached by following links; an error when
\* the path or a link target does not exist
RECURSIVE EvalSymlinks(_, _)
EvalSymlinks(f, p) ==
  IF p \notin DOMAIN f THEN [path |-> EmptyStr, err |-> TRUE]
  ELSE IF f[p].kind = "link" THEN EvalSymlinks(f, f[p].target)
  ELSE [path |-> p, err |-> FALSE]

\* fileExists: os.Stat follows links; false exactly when it says IsNotExist
fileExists(f, filename) == ~EvalSymlinks(f, filename).err

\* the kind of the node os.Stat or os.Open reaches
StatKind(f, p) == f[EvalSymlinks(f, p).path].kind

\* os.MkdirAll on a path that can be created
MkdirAll(f, p) == IF p \in DOMAIN f THEN f ELSE (p :> DirNode) @@ f

\* os.Symlink(target, p) on a path with no entry
Symlink(f, target, p) == (p :> LinkNode(target)) @@ f

\* stdout of lsblk --list -o NAME,MOUNTPOINT --noheadings: a line per block
\* device, the name, the column separator and the mount point
RECURSIVE lsblkLines(_, _, _)
lsblkLines(f, mp, names) ==
  IF names = <<>> THEN <<>>
  ELSE (IF DevPath(Head(names)) \in DOMAIN f
        THEN Head(names) \o <<" ">> \o mp[Head(names)] \o <<"\n">>
        ELSE <<>>) \o lsblkLines(f, mp, Tail(names))

lsblk(f, mp) == lsblkLines(f, mp, <<sdb, sdc>>)

\* filepath.Glob(diskByIDPath): the entries of the directory, sorted
Glob(f) == List({ById(i) : i \in {j \in Ids : ById(j) \in DOMAIN f}})

\* ------------------------------------------------------------------ events
\* newEvent(reason, message, disk); the message is its format and %s argument
newEvent(reason, fmt, arg, disk) ==
  [kind |-> "error", reason |-> reason, message |-> <<fmt, arg>>, disk |-> disk]

newSuccessEvent(reason, fmt, arg, disk) ==
  [kind |-> "success", reason |-> reason, message |-> <<fmt, arg>>, disk |-> disk]

\* a step of the cycle: what it visited, the events it handed to
\* eventSync.report, the file-system calls that create, the assignments added
Step(name, class, item, reported, calls, added) ==
  [step |-> name, class |-> class, item |-> item, reported |-> reported,
   calls |-> calls, added |-> added]

Call(op, path, target, ok) == [op |-> op, path |-> path, target |-> target, ok |-> ok]

\* the events reported so far in the current cycle, in order
RECURSIVE Reported(_)
Reported(t) == IF t = <<>> THEN <<>> ELSE Head(t).reported \o Reported(Tail(t))

\* the creating calls made so far in the current cycle, in order
RECURSIVE Calls(_)
Calls(t) == IF t = <<>> THEN <<>> ELSE Head(t).calls \o Calls(Tail(t))


\* ------------------------------------------------------ findMatchingDisks
\* findDeviceByID that drops the error of filepath.EvalSymlinks
findDeviceByIDNoError(f, deviceID) ==
  [id |-> deviceID, name |-> EvalSymlinks(f, deviceID).path, err |-> FALSE]

\* findDeviceByID: (deviceID, deviceName, error)
findDeviceByID(f, deviceID) ==
  LET diskDevPath == EvalSymlinks(f, deviceID)
  IN  IF diskDevPath.err
      THEN [id |-> EmptyStr, name |-> EmptyStr, err |-> TRUE]
      ELSE [id |-> deviceID, name |-> diskDevPath.path, err |-> FALSE]

\* findStableDeviceID: the first identifier path whose link target has the
\* base name diskName
RECURSIVE findStableDeviceID(_, _, _)
findStableDeviceID(f, diskName, allDisks) ==
  IF allDisks = <<>> THEN [id |-> EmptyStr, err |-> TRUE]
  ELSE LET diskDevPath == EvalSymlinks(f, Head(allDisks))
       IN  IF ~diskDevPath.err /\ Base(diskDevPath.path) = diskName
           THEN [id |-> Head(allDisks), err |-> FALSE]
           ELSE findStableDeviceID(f, diskName, Tail(allDisks))

\* addDiskToMap that keeps one assignment per device of a class
addDiskToMapOnce(m, scName, stableDeviceID, diskName, directoryPath) ==
  LET deviceArray == IF scName \in DOMAIN m THEN m[scName] ELSE <<>>
  IN  IF \E k \in 1..Len(deviceArray) :
            diskName # EmptyStr /\ Base(deviceArray[k].diskNamePath) = Base(diskName)
      THEN m
      ELSE [c \in DOMAIN m \cup {scName} |->
              IF c = scName
              THEN Append(deviceArray, DiskLocation(diskName, stableDeviceID, directoryPath))
              ELSE m[c]]

\* addDiskToMap with the device name and the directory path taken for each other
addDiskToMapSwapped(m, scName, stableDeviceID, diskName, directoryPath) ==
  LET deviceArray == IF scName \in DOMAIN m THEN m[scName] ELSE <<>>
  IN  [c \in DOMAIN m \cup {scName} |->
         IF c = scName
         THEN Append(deviceArray, DiskLocation(directoryPath, stableDeviceID, diskName))
         ELSE m[c]]
\* the closure addDiskToMap of findMatchingDisks, on the map m
addDiskToMap(m, scName, stableDeviceID, diskName, directoryPath) ==
  LET deviceArray == IF scName \in DOMAIN m THEN m[scName] ELSE <<>>
  IN  [c \in DOMAIN m \cup {scName} |->
         IF c = scName
         THEN Append(deviceArray, DiskLocation(diskName, stableDeviceID, directoryPath))
         ELSE m[c]]

Selector(class, kind, item) == [storageClass |-> class, kind |-> kind, item |-> item]

SelectorsOf(class, kind, items) ==
  [i \in 1..Len(items) |-> Selector(class, kind, items[i])]

\* the orders in which a range over a Go map can visit the keys S
RECURSIVE MapOrders(_)
MapOrders(S) ==
  IF S = {} THEN {<<>>}
  ELSE UNION { { <<x>> \o o : o \in MapOrders(S \ {x}) } : x \in S }

\* the selectors the loops of findMatchingDisks visit, the classes in the
\* given order: per class the device names, the device IDs, the directories
RECURSIVE MatchOrder(_, _)
MatchOrder(cfg, order) ==
  IF order = <<>> THEN <<>>
  ELSE LET c == Head(order)
       IN  SelectorsOf(c, "name", List(cfg[c].DeviceNames)) \o
           SelectorsOf(c, "id", List(cfg[c].DeviceIDs)) \o
           SelectorsOf(c, "dir", cfg[c].DirectoryPaths) \o
           MatchOrder(cfg, Tail(order))

\* the assignments the loops of symLinkDisks visit, the classes in the given order
RECURSIVE LinkOrder(_, _)
LinkOrder(m, order) ==
  IF order = <<>> THEN <<>>
  ELSE [i \in 1..Len(m[Head(order)]) |->
          [storageClass |-> Head(order), loc |-> m[Head(order)][i]]] \o
       LinkOrder(m, Tail(order))

\* -------------------------------------------------------------------- Init
\* NewDiskMaker has returned and Run is entered, on a host with sdb not
\* mounted and known as ata-x, sdc mounted, and nothing under the symlink root
Init ==
  /\ fs = (DevPath(sdb) :> BlkNode) @@ (DevPath(sdc) :> BlkNode) @@
          (ById(ataX) :> LinkNode(DevPath(sdb)))
  /\ mountpoint = (sdb :> EmptyStr) @@ (sdc :> MountDir)
  /\ configFile \in Configs
  /\ hostChanges = 0
  /\ cycles = 0
  /\ pc = "start"
  /\ diskConfig = NoConfig
  /\ out = EmptyStr
  /\ deviceSet = {}
  /\ allDiskIds = <<>>
  /\ matchQueue = <<>>
  /\ blockDeviceMap = <<>>
  /\ linkQueue = <<>>
  /\ trace = <<>>
  /\ fs0 = fs

\* ------------------------------------------------------------ host changes
HostMayChange == pc = "idle" /\ hostChanges < MaxHostChanges

\* nothing of the last cycle outlives it in the daemon (its variables are
\* locals of symLinkDisks): the record of the last cycle is dropped
Forget ==
  /\ diskConfig' = NoConfig
  /\ out' = EmptyStr
  /\ deviceSet' = {}
  /\ allDiskIds' = <<>>
  /\ matchQueue' = <<>>
  /\ blockDeviceMap' = <<>>
  /\ linkQueue' = <<>>
  /\ trace' = <<>>
  /\ fs0' = fs'

HostChanged ==
  /\ hostChanges' = hostChanges + 1
  /\ UNCHANGED <<cycles, pc>>
  /\ Forget

Remove(f, p) == [q \in DOMAIN f \ {p} |-> f[q]]

HostMount ==
  /\ HostMayChange
  /\ \E n \in Devs :
       /\ DevPath(n) \in DOMAIN fs
       /\ mountpoint[n] = EmptyStr
       /\ mountpoint' = [mountpoint EXCEPT ![n] = MountDir]
  /\ UNCHANGED <<fs, configFile>>
  /\ HostChanged

HostUnmount ==
  /\ HostMayChange
  /\ \E n \in Devs :
       /\ mountpoint[n] # EmptyStr
       /\ mountpoint' = [mountpoint EXCEPT ![n] = EmptyStr]
  /\ UNCHANGED <<fs, configFile>>
  /\ HostChanged

\* a block device is unplugged, or one that is not there is plugged in
HostHotplug ==
  /\ HostMayChange
  /\ \E n \in Devs :
       /\ fs' = IF DevPath(n) \in DOMAIN fs THEN Remove(fs, DevPath(n))
                ELSE (DevPath(n) :> BlkNode) @@ fs
       /\ mountpoint' = [mountpoint EXCEPT ![n] = EmptyStr]
  /\ UNCHANGED configFile
  /\ HostChanged

\* udev creates or retargets an identifier link
HostLinkId ==
  /\ HostMayChange
  /\ \E i \in Ids, n \in Devs :
       /\ (IF ById(i) \in DOMAIN fs THEN fs[ById(i)] # LinkNode(DevPath(n)) ELSE TRUE)
       /\ fs' = (ById(i) :> LinkNode(DevPath(n))) @@ fs
  /\ UNCHANGED <<mountpoint, configFile>>
  /\ HostChanged

HostUnlinkId ==
  /\ HostMayChange
  /\ \E i \in Ids :
       /\ ById(i) \in DOMAIN fs
       /\ fs' = Remove(fs, ById(i))
  /\ UNCHANGED <<mountpoint, configFile>>
  /\ HostChanged

\* somebody else creates a shared directory path, as a directory or as a file
HostSharedDir ==
  /\ HostMayChange
  /\ \E d \in Dirs, node \in {DirNode, FileNode} :
       /\ Join(rootfsDir, <<d>>) \notin DOMAIN fs
       /\ fs' = (Join(rootfsDir, <<d>>) :> node) @@ fs
  /\ UNCHANGED <<mountpoint, configFile>>
  /\ HostChanged

\* somebody else puts a file at the bind path of a shared directory
BindPaths ==
  [c \in Classes |-> [d \in Dirs |->
     Join(Join(symlinkLocation, <<c>>),
          <<generateBindName(PathString(Join(rootfsDir, <<d>>)), c)>>)]]

HostBind ==
  /\ HostMayChange
  /\ \E c \in Classes, d \in Dirs :
       /\ BindPaths[c][d] \notin DOMAIN fs
       /\ fs' = (BindPaths[c][d] :> FileNode) @@ MkdirAll(fs, Join(symlinkLocation, <<c>>))
  /\ UNCHANGED <<mountpoint, configFile>>
  /\ HostChanged

HostEditConfig ==
  /\ HostMayChange
  /\ \E cfg \in Configs \ {configFile} : configFile' = cfg
  /\ UNCHANGED <<fs, mountpoint>>
  /\ HostChanged


\* --------------------------------------------------------------------- Run
\* Run, before the loop: os.MkdirAll(d.symlinkLocation, 0755)
RunStart ==
  /\ pc = "start"
  /\ fs' = MkdirAll(fs, symlinkLocation)
  /\ pc' = "idle"
  /\ UNCHANGED <<mountpoint, configFile, hostChanges, cycles, cycleVars, trace, fs0>>

\* ... which fails: os.Exit(-1)
RunStartFails ==
  /\ pc = "start"
  /\ pc' = "exited"
  /\ UNCHANGED <<hostVars, cycles, cycleVars, trace, fs0>>

\* the variables of a cycle, as a cycle finds them
CycleReset ==
  /\ out' = EmptyStr
  /\ deviceSet' = {}
  /\ allDiskIds' = <<>>
  /\ matchQueue' = <<>>
  /\ blockDeviceMap' = <<>>
  /\ linkQueue' = <<>>
  /\ trace' = <<>>
  /\ fs0' = fs

\* case <-ticker.C, loadConfig succeeds: symLinkDisks(diskConfig) is called
Tick ==
  /\ pc = "idle"
  /\ cycles < MaxCycles
  /\ cycles' = cycles + 1
  /\ diskConfig' = configFile
  /\ CycleReset
  /\ pc' = "lsblk"
  /\ UNCHANGED hostVars

\* case <-ticker.C, loadConfig fails: break, back to the select
TickLoadFails ==
  /\ pc = "idle"
  /\ cycles < MaxCycles
  /\ cycles' = cycles + 1
  /\ diskConfig' = NoConfig
  /\ CycleReset
  /\ pc' = "idle"
  /\ UNCHANGED hostVars

\* Stop that is taken wherever Run or symLinkDisks is
StopAnywhere ==
  /\ pc # "exited"
  /\ pc' = "exited"
  /\ UNCHANGED <<hostVars, cycles>>
  /\ Forget
\* case <-stop: os.Exit(0)
Stop ==
  /\ pc = "idle"
  /\ pc' = "exited"
  /\ UNCHANGED <<hostVars, cycles>>
  /\ Forget

\* ------------------------------------------------------------ symLinkDisks
\* LsblkFails without the return
LsblkFailsNoReturn ==
  /\ pc = "lsblk"
  /\ trace' = Append(trace, Step("lsblkFails", EmptyStr, EmptyStr,
                 << newEvent("ErrorRunningBlockList", "error running lsblk: %v",
                             EmptyStr, EmptyStr) >>, <<>>, <<>>))
  /\ out' = EmptyStr
  /\ pc' = "findNewDisks"
  /\ UNCHANGED <<hostVars, cycles, diskConfig, deviceSet, allDiskIds, matchQueue,
                 blockDeviceMap, linkQueue, fs0>>

\* cmd.Run() of lsblk fails: one event, return
LsblkFails ==
  /\ pc = "lsblk"
  /\ trace' = Append(trace, Step("lsblkFails", EmptyStr, EmptyStr,
                 << newEvent("ErrorRunningBlockList", "error running lsblk: %v",
                             EmptyStr, EmptyStr) >>, <<>>, <<>>))
  /\ pc' = "idle"
  /\ UNCHANGED <<hostVars, cycles, cycleVars, fs0>>

\* cmd.Run() of lsblk succeeds
Lsblk ==
  /\ pc = "lsblk"
  /\ out' = lsblk(fs, mountpoint)
  /\ pc' = "findNewDisks"
  /\ UNCHANGED <<hostVars, cycles, diskConfig, deviceSet, allDiskIds, matchQueue,
                 blockDeviceMap, linkQueue, trace, fs0>>

\* deviceSet, err := d.findNewDisks(out.String()); err is always nil
FindNewDisks ==
  /\ pc = "findNewDisks"
  /\ deviceSet' = findNewDisks(out)
  /\ pc' = "glob"
  /\ UNCHANGED <<hostVars, cycles, diskConfig, out, allDiskIds, matchQueue,
                 blockDeviceMap, linkQueue, trace, fs0>>

\* filepath.Glob(diskByIDPath) fails: one event, return
GlobFails ==
  /\ pc = "glob"
  /\ trace' = Append(trace, Step("globFails", EmptyStr, EmptyStr,
                 << newEvent("ErrorListingDeviceID",
                             "error listing disks in /dev/disk/by-id: %v",
                             EmptyStr, EmptyStr) >>, <<>>, <<>>))
  /\ pc' = "idle"
  /\ UNCHANGED <<hostVars, cycles, cycleVars, fs0>>

\* filepath.Glob(diskByIDPath) succeeds and findMatchingDisks is entered
GlobAll ==
  /\ pc = "glob"
  /\ allDiskIds' = Glob(fs)
  /\ \E order \in MapOrders(DOMAIN diskConfig) :
       matchQueue' = MatchOrder(diskConfig, order)
  /\ blockDeviceMap' = <<>>
  /\ pc' = "match"
  /\ UNCHANGED <<hostVars, cycles, diskConfig, out, deviceSet, linkQueue, trace, fs0>>

\* what a step of findMatchingDisks leaves alone
MatchFrame ==
  /\ matchQueue' = Tail(matchQueue)
  /\ pc' = "match"
  /\ UNCHANGED <<mountpoint, configFile, hostChanges, cycles, diskConfig, out,
                 deviceSet, allDiskIds, linkQueue, fs0>>

\* for _, diskName := range deviceNames
MatchDeviceName ==
  /\ pc = "match"
  /\ matchQueue # <<>>
  /\ Head(matchQueue).kind = "name"
  /\ LET storageClass == Head(matchQueue).storageClass
         diskName == Head(matchQueue).item
         baseDeviceName == Base(diskName)
         matched == findStableDeviceID(fs, baseDeviceName, allDiskIds)
         m == IF ~hasExactDisk(deviceSet, baseDeviceName) THEN blockDeviceMap
              ELSE IF matched.err
                   THEN addDiskToMap(blockDeviceMap, storageClass, EmptyStr, diskName, EmptyStr)
                   ELSE addDiskToMap(blockDeviceMap, storageClass, matched.id, diskName, EmptyStr)
     IN  /\ blockDeviceMap' = m
         /\ trace' = Append(trace, Step("matchName", storageClass, diskName, <<>>, <<>>,
                        IF m = blockDeviceMap THEN <<>>
                        ELSE <<m[storageClass][Len(m[storageClass])]>>))
  /\ UNCHANGED fs
  /\ MatchFrame

\* for _, deviceID := range deviceIds
MatchDeviceID ==
  /\ pc = "match"
  /\ matchQueue # <<>>
  /\ Head(matchQueue).kind = "id"
  /\ LET storageClass == Head(matchQueue).storageClass
         deviceID == Head(matchQueue).item
         found == findDeviceByID(fs, deviceID)
         baseDeviceName == Base(found.name)
         add == ~found.err /\ hasExactDisk(deviceSet, baseDeviceName)
         m == IF add
              THEN addDiskToMap(blockDeviceMap, storageClass, found.id, found.name, EmptyStr)
              ELSE blockDeviceMap
     IN  /\ blockDeviceMap' = m
         /\ trace' = Append(trace, Step("matchID", storageClass, deviceID,
                        IF found.err
                        THEN << newEvent("ErrorFindingMatchingDisk",
                                  "unable to add disk-id %s to local disk pool: %v",
                                  deviceID, deviceID) >>
                        ELSE <<>>,
                        <<>>,
                        IF add THEN <<m[storageClass][Len(m[storageClass])]>> ELSE <<>>))
  /\ UNCHANGED fs
  /\ MatchFrame

\* MatchDirectoryExists without the continue that ends the branch: the
\* directory is created anyway and assigned again
MatchDirectoryExistsNoContinue ==
  /\ pc = "match"
  /\ matchQueue # <<>>
  /\ Head(matchQueue).kind = "dir"
  /\ LET storageClass == Head(matchQueue).storageClass
         sharedDirPath == Join(rootfsDir, <<Head(matchQueue).item>>)
         loc == DiskLocation(EmptyStr, EmptyStr, sharedDirPath)
         isDir == StatKind(fs, sharedDirPath) = "dir"
         m1 == IF isDir
               THEN addDiskToMap(blockDeviceMap, storageClass, EmptyStr, EmptyStr, sharedDirPath)
               ELSE blockDeviceMap
     IN  /\ fileExists(fs, sharedDirPath)
         /\ blockDeviceMap' = addDiskToMap(m1, storageClass, EmptyStr, EmptyStr, sharedDirPath)
         /\ trace' = Append(trace, Step("matchDir", storageClass, sharedDirPath, <<>>,
                        << Call("MkdirAll", sharedDirPath, EmptyStr, TRUE) >>,
                        IF isDir THEN <<loc, loc>> ELSE <<loc>>))
  /\ UNCHANGED fs
  /\ MatchFrame

\* for _, directory := range disks.DirectoryPaths, fileExists(sharedDirPath):
\* isDir either fails (an event) or tells whether it is a directory
MatchDirectoryExists ==
  /\ pc = "match"
  /\ matchQueue # <<>>
  /\ Head(matchQueue).kind = "dir"
  /\ LET storageClass == Head(matchQueue).storageClass
         sharedDirPath == Join(rootfsDir, <<Head(matchQueue).item>>)
     IN  /\ fileExists(fs, sharedDirPath)
         /\ \E failed \in BOOLEAN :
              LET isDir == ~failed /\ StatKind(fs, sharedDirPath) = "dir"
                  m == IF isDir
                       THEN addDiskToMap(blockDeviceMap, storageClass, EmptyStr, EmptyStr,
                                         sharedDirPath)
                       ELSE blockDeviceMap
              IN  /\ blockDeviceMap' = m
                  /\ trace' = Append(trace, Step("matchDir", storageClass, sharedDirPath,
                                 IF failed
                                 THEN << newEvent("ErrorCreatingSharedDir",
                                           "error checking shared dir %s: %v",
                                           sharedDirPath, EmptyStr) >>
                                 ELSE <<>>,
                                 <<>>,
                                 IF isDir THEN <<m[storageClass][Len(m[storageClass])]>>
                                 ELSE <<>>))
  /\ UNCHANGED fs
  /\ MatchFrame

\* ... !fileExists(sharedDirPath): os.MkdirAll(sharedDirPath, 0755)
MatchDirectoryCreate ==
  /\ pc = "match"
  /\ matchQueue # <<>>
  /\ Head(matchQueue).kind = "dir"
  /\ LET storageClass == Head(matchQueue).storageClass
         sharedDirPath == Join(rootfsDir, <<Head(matchQueue).item>>)
     IN  /\ ~fileExists(fs, sharedDirPath)
         /\ \E ok \in BOOLEAN :
              LET m == IF ok
                       THEN addDiskToMap(blockDeviceMap, storageClass, EmptyStr, EmptyStr,
                                         sharedDirPath)
                       ELSE blockDeviceMap
              IN  /\ fs' = IF ok THEN MkdirAll(fs, sharedDirPath) ELSE fs
                  /\ blockDeviceMap' = m
                  /\ trace' = Append(trace, Step("matchDir", storageClass, sharedDirPath,
                                 IF ok THEN <<>>
                                 ELSE << newEvent("ErrorCreatingSharedDir",
                                           "error creating shared dir %s: %v",
                                           sharedDirPath, EmptyStr) >>,
                                 << Call("MkdirAll", sharedDirPath, EmptyStr, ok) >>,
                                 IF ok THEN <<m[storageClass][Len(m[storageClass])]>>
                                 ELSE <<>>))
  /\ MatchFrame

\* EmptyDeviceMap that returns without an event
EmptyDeviceMapSilent ==
  /\ pc = "match"
  /\ matchQueue = <<>>
  /\ DOMAIN blockDeviceMap = {}
  /\ trace' = Append(trace, Step("emptyDeviceMap", EmptyStr, EmptyStr, <<>>, <<>>, <<>>))
  /\ pc' = "idle"
  /\ UNCHANGED <<hostVars, cycles, cycleVars, fs0>>

\* findMatchingDisks has returned, len(deviceMap) == 0: one event, return
EmptyDeviceMap ==
  /\ pc = "match"
  /\ matchQueue = <<>>
  /\ DOMAIN blockDeviceMap = {}
  /\ trace' = Append(trace, Step("emptyDeviceMap", EmptyStr, EmptyStr,
                 << newEvent("ErrorFindingMatchingDisk",
                             "found empty matching device list", EmptyStr, EmptyStr) >>,
                 <<>>, <<>>))
  /\ pc' = "idle"
  /\ UNCHANGED <<hostVars, cycles, cycleVars, fs0>>

\* findMatchingDisks has returned a non-empty map: range over deviceMap
StartLinking ==
  /\ pc = "match"
  /\ matchQueue = <<>>
  /\ DOMAIN blockDeviceMap # {}
  /\ \E order \in MapOrders(DOMAIN blockDeviceMap) :
       linkQueue' = LinkOrder(blockDeviceMap, order)
  /\ pc' = "link"
  /\ UNCHANGED <<hostVars, cycles, diskConfig, out, deviceSet, allDiskIds, matchQueue,
                 blockDeviceMap, trace, fs0>>


\* ------------------------------------------- symLinkDisks, the linking loop
\* symLinkDirPath := path.Join(d.symlinkLocation, storageClass)
symLinkDirPathOf(a) == Join(symlinkLocation, <<a.storageClass>>)

\* bindPath of a shared directory
bindPathOf(a) ==
  Join(symLinkDirPathOf(a),
       <<generateBindName(PathString(a.loc.directoryPath), a.storageClass)>>)

\* symLinkPath := path.Join(symLinkDirPath, filepath.Base(diskNamePath))
symLinkPathOf(a) == Join(symLinkDirPathOf(a), <<Base(a.loc.diskNamePath)>>)

\* the "bind path already exists" continue, after os.MkdirAll on f
bindExists(f, a) == a.loc.directoryPath # EmptyStr /\ fileExists(f, bindPathOf(a))

\* symLinkTarget that never takes the stable identifier
symLinkTargetRaw(a) == a.loc.diskNamePath
\* what the symlink is made to point to
symLinkTarget(a) ==
  IF a.loc.diskID # EmptyStr THEN a.loc.diskID ELSE a.loc.diskNamePath

\* what a step of the linking loop leaves alone; the loop ends with the queue
LinkFrame ==
  /\ linkQueue' = Tail(linkQueue)
  /\ pc' = IF Tail(linkQueue) = <<>> THEN "idle" ELSE "link"
  /\ UNCHANGED <<mountpoint, configFile, hostChanges, cycles, diskConfig, out,
                 deviceSet, allDiskIds, matchQueue, blockDeviceMap, fs0>>

\* LinkMkdirFails that returns from symLinkDisks instead of continuing
LinkMkdirFailsReturn ==
  /\ pc = "link"
  /\ LET a == Head(linkQueue)
     IN  /\ symLinkDirPathOf(a) \notin DOMAIN fs
         /\ trace' = Append(trace, Step("linkMkdirFails", a.storageClass, a.loc,
                        << newEvent("ErrorFindingMatchingDisk",
                                    "error creating symlink dir %s: %v",
                                    symLinkDirPathOf(a), EmptyStr) >>,
                        << Call("MkdirAll", symLinkDirPathOf(a), EmptyStr, FALSE) >>,
                        <<>>))
  /\ linkQueue' = <<>>
  /\ pc' = "idle"
  /\ UNCHANGED <<fs, mountpoint, configFile, hostChanges, cycles, diskConfig, out,
                 deviceSet, allDiskIds, matchQueue, blockDeviceMap, fs0>>
\* os.MkdirAll(symLinkDirPath, 0755) fails: an event, continue
LinkMkdirFails ==
  /\ pc = "link"
  /\ LET a == Head(linkQueue)
     IN  /\ symLinkDirPathOf(a) \notin DOMAIN fs
         /\ trace' = Append(trace, Step("linkMkdirFails", a.storageClass, a.loc,
                        << newEvent("ErrorFindingMatchingDisk",
                                    "error creating symlink dir %s: %v",
                                    symLinkDirPathOf(a), EmptyStr) >>,
                        << Call("MkdirAll", symLinkDirPathOf(a), EmptyStr, FALSE) >>,
                        <<>>))
  /\ UNCHANGED fs
  /\ LinkFrame

\* a shared directory whose bind path exists: continue
LinkBindExists ==
  /\ pc = "link"
  /\ LET a == Head(linkQueue)
         made == MkdirAll(fs, symLinkDirPathOf(a))
     IN  /\ bindExists(made, a)
         /\ fs' = made
         /\ trace' = Append(trace, Step("linkBindExists", a.storageClass, a.loc, <<>>,
                        << Call("MkdirAll", symLinkDirPathOf(a), EmptyStr, TRUE) >>,
                        <<>>))
  /\ LinkFrame

\* LinkAlreadyExists without its continue: the success event is reported
LinkAlreadyExistsReports ==
  /\ pc = "link"
  /\ LET a == Head(linkQueue)
         made == MkdirAll(fs, symLinkDirPathOf(a))
     IN  /\ ~bindExists(made, a)
         /\ fileExists(made, symLinkPathOf(a))
         /\ fs' = made
         /\ trace' = Append(trace, Step("linkAlreadyExists", a.storageClass, a.loc,
                        << newSuccessEvent("FoundMatchingDisk", "found matching disk %s",
                                           Base(a.loc.diskNamePath), a.loc.diskNamePath) >>,
                        << Call("MkdirAll", symLinkDirPathOf(a), EmptyStr, TRUE) >>,
                        <<>>))
  /\ LinkFrame
\* fileExists(symLinkPath): continue
LinkAlreadyExists ==
  /\ pc = "link"
  /\ LET a == Head(linkQueue)
         made == MkdirAll(fs, symLinkDirPathOf(a))
     IN  /\ ~bindExists(made, a)
         /\ fileExists(made, symLinkPathOf(a))
         /\ fs' = made
         /\ trace' = Append(trace, Step("linkAlreadyExists", a.storageClass, a.loc, <<>>,
                        << Call("MkdirAll", symLinkDirPathOf(a), EmptyStr, TRUE) >>,
                        <<>>))
  /\ LinkFrame

\* the success event that ends the loop body
foundMatchingDisk(a) ==
  newSuccessEvent("FoundMatchingDisk", "found matching disk %s",
                  Base(a.loc.diskNamePath), a.loc.diskNamePath)

\* what the loop body reports after os.Symlink returned, ok or not
reportSymlink(a, ok) ==
  IF ok THEN << foundMatchingDisk(a) >>
  ELSE << newEvent("ErrorFindingMatchingDisk", "error creating symlink %s: %v",
                   symLinkPathOf(a), a.loc.diskNamePath),
          foundMatchingDisk(a) >>

\* os.Symlink succeeds
LinkSymlink ==
  /\ pc = "link"
  /\ LET a == Head(linkQueue)
         made == MkdirAll(fs, symLinkDirPathOf(a))
     IN  /\ ~bindExists(made, a)
         /\ ~fileExists(made, symLinkPathOf(a))
         /\ symLinkPathOf(a) \notin DOMAIN made
         /\ fs' = Symlink(made, symLinkTarget(a), symLinkPathOf(a))
         /\ trace' = Append(trace, Step("linkSymlink", a.storageClass, a.loc,
                        reportSymlink(a, TRUE),
                        << Call("MkdirAll", symLinkDirPathOf(a), EmptyStr, TRUE),
                           Call("Symlink", symLinkPathOf(a), symLinkTarget(a), TRUE) >>,
                        <<>>))
  /\ LinkFrame

\* LinkSymlinkFails that puts the new link in the place of the entry it found
LinkSymlinkFailsReplaces ==
  /\ pc = "link"
  /\ LET a == Head(linkQueue)
         made == MkdirAll(fs, symLinkDirPathOf(a))
     IN  /\ ~bindExists(made, a)
         /\ ~fileExists(made, symLinkPathOf(a))
         /\ fs' = Symlink(made, symLinkTarget(a), symLinkPathOf(a))
         /\ trace' = Append(trace, Step("linkSymlinkFails", a.storageClass, a.loc,
                        reportSymlink(a, FALSE),
                        << Call("MkdirAll", symLinkDirPathOf(a), EmptyStr, TRUE),
                           Call("Symlink", symLinkPathOf(a), symLinkTarget(a), FALSE) >>,
                        <<>>))
  /\ LinkFrame
\* os.Symlink fails: the path has an entry (a link whose target is gone), or
\* the host refuses
LinkSymlinkFails ==
  /\ pc = "link"
  /\ LET a == Head(linkQueue)
         made == MkdirAll(fs, symLinkDirPathOf(a))
     IN  /\ ~bindExists(made, a)
         /\ ~fileExists(made, symLinkPathOf(a))
         /\ fs' = made
         /\ trace' = Append(trace, Step("linkSymlinkFails", a.storageClass, a.loc,
                        reportSymlink(a, FALSE),
                        << Call("MkdirAll", symLinkDirPathOf(a), EmptyStr, TRUE),
                           Call("Symlink", symLinkPathOf(a), symLinkTarget(a), FALSE) >>,
                        <<>>))
  /\ LinkFrame

\* -------------------------------------------------------------------- Next
Next ==
  \/ RunStart
  \/ RunStartFails
  \/ Tick
  \/ TickLoadFails
  \/ Stop
  \/ LsblkFails
  \/ Lsblk
  \/ FindNewDisks
  \/ GlobFails
  \/ GlobAll
  \/ MatchDeviceName
  \/ MatchDeviceID
  \/ MatchDirectoryExists
  \/ MatchDirectoryCreate
  \/ EmptyDeviceMap
  \/ StartLinking
  \/ LinkMkdirFails
  \/ LinkBindExists
  \/ LinkAlreadyExists
  \/ LinkSymlink
  \/ LinkSymlinkFails
  \/ HostMount
  \/ HostUnmount
  \/ HostHotplug
  \/ HostLinkId
  \/ HostUnlinkId
  \/ HostSharedDir
  \/ HostBind
  \/ HostEditConfig

Spec == Init /\ [][Next]_vars

\* ------------------------------------------- findNewDisks on any listing
ListingChars == {"s", "/", " ", "\n"}

Listings == UNION { [1..k -> ListingChars] : k \in 0..MaxContentLen }

\* symLinkDisks with any text as the output of lsblk
InitFindNewDisks ==
  /\ fs = (DevPath(sdb) :> BlkNode) @@ (symlinkLocation :> DirNode)
  /\ mountpoint = (sdb :> EmptyStr) @@ (sdc :> EmptyStr)
  /\ configFile = (ssd :> NoDisks)
  /\ hostChanges = 0
  /\ cycles = 1
  /\ pc = "findNewDisks"
  /\ diskConfig = configFile
  /\ out \in Listings
  /\ deviceSet = {}
  /\ allDiskIds = <<>>
  /\ matchQueue = <<>>
  /\ blockDeviceMap = <<>>
  /\ linkQueue = <<>>
  /\ trace = <<>>
  /\ fs0 = fs

SpecFindNewDisks == InitFindNewDisks /\ [][FindNewDisks]_vars


\* --------------------------------------- generateBindName on any two pairs
NameChars == {"a", "b"}

Names == UNION { [1..k -> NameChars] : k \in 0..MaxNameLen }

\* two calls of generateBindName are pending, on any directories and classes
InitBindName ==
  /\ fs = (symlinkLocation :> DirNode)
  /\ mountpoint = (sdb :> EmptyStr) @@ (sdc :> EmptyStr)
  /\ configFile = (ssd :> NoDisks)
  /\ hostChanges = 0
  /\ cycles = 1
  /\ pc = "bindName"
  /\ diskConfig = configFile
  /\ out = EmptyStr
  /\ deviceSet = {}
  /\ allDiskIds = <<>>
  /\ \E f1 \in Names, f2 \in Names, c1 \in Names \ {EmptyStr}, c2 \in Names \ {EmptyStr} :
       matchQueue = << Selector(c1, "bind", f1), Selector(c2, "bind", f2) >>
  /\ blockDeviceMap = <<>>
  /\ linkQueue = <<>>
  /\ trace = <<>>
  /\ fs0 = fs

\* bindName := generateBindName(deviceNameLocation.directoryPath, storageClass)
BindName ==
  /\ pc = "bindName"
  /\ matchQueue # <<>>
  /\ LET file == Head(matchQueue).item
         class == Head(matchQueue).storageClass
     IN  trace' = Append(trace, Step("bindName", class, file, <<>>, <<>>,
                    << generateBindName(file, class) >>))
  /\ matchQueue' = Tail(matchQueue)
  /\ UNCHANGED <<hostVars, cycles, pc, diskConfig, out, deviceSet, allDiskIds,
                 blockDeviceMap, linkQueue, fs0>>

SpecBindName == InitBindName /\ [][BindName]_vars


\* ------------------------------------------------ Run that goes on ticking
\* TickOn that calls symLinkDisks on the first tick only
TickOnOnce ==
  /\ pc = "idle"
  /\ cycles = 0
  /\ cycles' = 1
  /\ diskConfig' = configFile
  /\ CycleReset
  /\ pc' = "lsblk"
  /\ UNCHANGED hostVars

\* the ticker never runs out: case <-ticker.C with the count of cycles kept
\* at its bound
TickOn ==
  /\ pc = "idle"
  /\ cycles' = IF cycles < MaxCycles THEN cycles + 1 ELSE cycles
  /\ diskConfig' = configFile
  /\ CycleReset
  /\ pc' = "lsblk"
  /\ UNCHANGED hostVars

TickOnLoadFails ==
  /\ pc = "idle"
  /\ cycles' = IF cycles < MaxCycles THEN cycles + 1 ELSE cycles
  /\ diskConfig' = NoConfig
  /\ CycleReset
  /\ pc' = "idle"
  /\ UNCHANGED hostVars

\* the places a device symlink can be at
LinkPaths ==
  { Join(Join(symlinkLocation, <<c>>), <<n>>) : c \in Classes, n \in Devs }

\* the steps of symLinkDisks after its two listings
CycleStep ==
  \/ FindNewDisks
  \/ MatchDeviceName
  \/ MatchDeviceID
  \/ MatchDirectoryExists
  \/ MatchDirectoryCreate
  \/ EmptyDeviceMap
  \/ StartLinking
  \/ LinkMkdirFails
  \/ LinkBindExists
  \/ LinkAlreadyExists
  \/ LinkSymlink
  \/ LinkSymlinkFails

NextOn ==
  \/ RunStart
  \/ RunStartFails
  \/ TickOn
  \/ TickOnLoadFails
  \/ Stop
  \/ LsblkFails
  \/ Lsblk
  \/ GlobFails
  \/ GlobAll
  \/ CycleStep
  \/ HostMount
  \/ HostUnmount
  \/ HostHotplug
  \/ HostLinkId
  \/ HostUnlinkId
  \/ HostSharedDir
  \/ HostBind
  \/ HostEditConfig

\* the daemon takes its steps and the ticker fires; the two listings and the
\* creation of a link that can succeed do not fail for ever; nothing is
\* asked of the host and of the stop channel
SpecOn ==
  /\ Init
  /\ [][NextOn]_vars
  /\ WF_vars(CycleStep)
  /\ WF_vars(TickOn)
  /\ SF_vars(Lsblk)
  /\ SF_vars(GlobAll)
  /\ SF_vars(LinkSymlink)

\* ================================================================= claims
\* steps of the current cycle, by what they are
MatchStepNames == {"matchName", "matchID", "matchDir"}
LinkStepNames ==
  {"linkMkdirFails", "linkBindExists", "linkAlreadyExists", "linkSymlink", "linkSymlinkFails"}
AbortStepNames == {"lsblkFails", "globFails"}

StepsNamed(names) == {i \in 1..Len(trace) : trace[i].step \in names}

\* the events of a step that satisfy P
EventsOf(st, P(_)) == {k \in 1..Len(st.reported) : P(st.reported[k])}

\* the calls of a step that are os.Symlink
SymlinkCalls(st) == {k \in 1..Len(st.calls) : st.calls[k].op = "Symlink"}

\* findMatchingDisks has just returned blockDeviceMap
MatchReturned == pc = "match" /\ matchQueue = <<>>

\* ------------------------------------------------------------------- C1
\* C1: every device assignment for which os.Symlink is called ends in exactly
\* one of created or failed: a failed os.Symlink reports an error event naming
\* the device and no success event; a successful one reports exactly one
\* success event naming the device and no error event.
C1_SymlinkCreatedOrFailed ==
  \A i \in StepsNamed(LinkStepNames) :
    LET st == trace[i]
        named(e) == e.disk = st.item.diskNamePath
        success(e) == e.kind = "success"
        error(e) == e.kind = "error"
        namedSuccess(e) == success(e) /\ named(e)
        namedError(e) == error(e) /\ named(e)
    IN  \A k \in SymlinkCalls(st) :
          IF st.calls[k].ok
          THEN /\ Cardinality(EventsOf(st, namedSuccess)) = 1
               /\ EventsOf(st, success) = EventsOf(st, namedSuccess)
               /\ EventsOf(st, error) = {}
          ELSE /\ EventsOf(st, namedError) # {}
               /\ EventsOf(st, success) = {}

\* ------------------------------------------------------------------- C2
\* C2: a device assignment whose symlink path had an entry when the cycle
\* started is left alone by the cycle: no os.Symlink call, the entry as it
\* was, and no success and no error event for it.
C2_ExistingLinkLeftAlone ==
  \A i \in StepsNamed(LinkStepNames) :
    LET st == trace[i]
        symLinkPath == symLinkPathOf([storageClass |-> st.class, loc |-> st.item])
    IN  (st.item.diskNamePath # EmptyStr /\ symLinkPath \in DOMAIN fs0)
        => /\ SymlinkCalls(st) = {}
           /\ st.reported = <<>>
           /\ symLinkPath \in DOMAIN fs
           /\ fs[symLinkPath] = fs0[symLinkPath]

\* ------------------------------------------------------------------- C3
\* the fields of a listing line: the places where a run of non-space
\* characters starts, and the run that starts at i
FieldStarts(line) ==
  {i \in 1..Len(line) : ~isSpace(line[i]) /\ (IF i = 1 THEN TRUE ELSE isSpace(line[i - 1]))}

FieldAt(line, i) ==
  SubSeq(line, i,
         CHOOSE j \in i..Len(line) :
           /\ \A k \in i..j : ~isSpace(line[k])
           /\ (IF j = Len(line) THEN TRUE ELSE isSpace(line[j + 1])))

\* the name column of a line that has one
NameOf(line) == FieldAt(line, CHOOSE i \in FieldStarts(line) : \A k \in FieldStarts(line) : i <= k)

NumFields(line) == Cardinality(FieldStarts(line))

\* C3: a name is in the set findNewDisks returns only when some line of the
\* listing consists of exactly that one field; a device all of whose lines
\* carry a mount-point field is not in the set.
C3_MountedNeverInDeviceSet ==
  pc = "glob" =>
    LET lines == Split(out, "\n")
    IN  /\ \A n \in deviceSet :
             \E i \in 1..Len(lines) : NumFields(lines[i]) = 1 /\ NameOf(lines[i]) = n
        /\ \A i \in 1..Len(lines) :
             ( /\ NumFields(lines[i]) >= 2
               /\ \A j \in 1..Len(lines) :
                    (NumFields(lines[j]) >= 1 /\ NameOf(lines[j]) = NameOf(lines[i]))
                    => NumFields(lines[j]) >= 2 )
             => NameOf(lines[i]) \notin deviceSet

\* a listing with a mounted device and an unmounted one has been parsed
C3_Witness ==
  /\ pc = "glob"
  /\ \E i, j \in 1..Len(Split(out, "\n")) :
       /\ NumFields(Split(out, "\n")[i]) = 2
       /\ NumFields(Split(out, "\n")[j]) = 1
       /\ NameOf(Split(out, "\n")[i]) # NameOf(Split(out, "\n")[j])
       /\ deviceSet = {NameOf(Split(out, "\n")[j])}


\* ------------------------------------------------------------------- C4
\* the assignments of class c's list for the device with base name b
AssignmentsFor(c, b) ==
  IF c \in DOMAIN blockDeviceMap
  THEN {k \in 1..Len(blockDeviceMap[c]) :
          /\ blockDeviceMap[c][k].diskNamePath # EmptyStr
          /\ Base(blockDeviceMap[c][k].diskNamePath) = b}
  ELSE {}

\* the device names of class c that select the unmounted device b
NamesSelecting(c, b) ==
  {n \in diskConfig[c].DeviceNames : Base(n) = b /\ b \in deviceSet}

\* the device IDs of class c that resolve to the unmounted device b
IDsSelecting(c, b) ==
  {id \in diskConfig[c].DeviceIDs :
     /\ ~EvalSymlinks(fs, id).err
     /\ Base(EvalSymlinks(fs, id).path) = b
     /\ b \in deviceSet}

\* C4: a device selected in one class by a device name and by a device ID
\* that resolves to it gets two assignments in that class's list, the by-name
\* one before the by-ID one: the list holds one assignment per selecting
\* entry, none collapsed.
C4_NameAndIDBothAssigned ==
  MatchReturned =>
    \A c \in DOMAIN diskConfig, b \in Devs :
      /\ Cardinality(AssignmentsFor(c, b)) =
           Cardinality(NamesSelecting(c, b)) + Cardinality(IDsSelecting(c, b))
      /\ \A n \in NamesSelecting(c, b), id \in IDsSelecting(c, b) :
           \E k, l \in AssignmentsFor(c, b) :
             /\ k < l
             /\ blockDeviceMap[c][k].diskNamePath = n
             /\ blockDeviceMap[c][l].diskID = id
             /\ blockDeviceMap[c][l].diskNamePath = EvalSymlinks(fs, id).path

\* sdb was selected by name and by ID in one class
C4_Witness ==
  /\ MatchReturned
  /\ \E c \in DOMAIN diskConfig, b \in Devs :
       /\ NamesSelecting(c, b) # {}
       /\ IDsSelecting(c, b) # {}
       /\ Cardinality(AssignmentsFor(c, b)) = 2

\* ------------------------------------------------------------------- C5
\* the classes of the configuration that list the device ID id
ClassesListingID(id) == {c \in DOMAIN diskConfig : id \in diskConfig[c].DeviceIDs}

\* the selectors of the configuration: one per class and listed entry
NumSelectors ==
  LET n(c) == Cardinality(diskConfig[c].DeviceNames) +
              Cardinality(diskConfig[c].DeviceIDs) + Len(diskConfig[c].DirectoryPaths)
      RECURSIVE sum(_)
      sum(S) == IF S = {} THEN 0
                ELSE LET c == CHOOSE x \in S : TRUE IN n(c) + sum(S \ {c})
  IN  sum(DOMAIN diskConfig)

\* the events reported so far that are errors naming disk
ErrorsNaming(disk) ==
  {k \in 1..Len(Reported(trace)) :
     Reported(trace)[k].kind = "error" /\ Reported(trace)[k].disk = disk}

\* C5: a configured device ID whose link is broken or absent adds no
\* assignment, is reported by exactly one error event naming it (one per
\* class that lists it), and does not end the matching: every selector of
\* the configuration has been visited when findMatchingDisks returns.
C5_BrokenIDReportedAndSkipped ==
  /\ \A i \in StepsNamed({"matchID"}) :
       EvalSymlinks(fs, trace[i].item).err
       => /\ trace[i].added = <<>>
          /\ Len(trace[i].reported) = 1
          /\ trace[i].reported[1].kind = "error"
          /\ trace[i].reported[1].disk = trace[i].item
  /\ MatchReturned =>
       /\ Cardinality(StepsNamed(MatchStepNames)) = NumSelectors
       /\ \A id \in {ById(i) : i \in Ids} :
            EvalSymlinks(fs, id).err
            => /\ Cardinality(ErrorsNaming(id)) = Cardinality(ClassesListingID(id))
               /\ \A c \in DOMAIN blockDeviceMap :
                    \A k \in 1..Len(blockDeviceMap[c]) : blockDeviceMap[c][k].diskID # id

\* a broken device ID was reported and a later selector still added an assignment
C5_Witness ==
  /\ MatchReturned
  /\ \E i, j \in StepsNamed(MatchStepNames) :
       /\ i < j
       /\ trace[i].step = "matchID"
       /\ EvalSymlinks(fs, trace[i].item).err
       /\ Cardinality(ErrorsNaming(trace[i].item)) >= 1
       /\ trace[j].added # <<>>

\* ------------------------------------------------------------------- C6
\* C6: every device assignment of blockDeviceMap refers to a device whose
\* base name is in deviceSet, which holds no mounted device; every symlink
\* created in the cycle is for a device of deviceSet.
C6_AssignedDevicesUnmounted ==
  /\ \A n \in Devs : mountpoint[n] # EmptyStr => n \notin deviceSet
  /\ \A c \in DOMAIN blockDeviceMap :
       \A k \in 1..Len(blockDeviceMap[c]) :
         LET loc == blockDeviceMap[c][k]
         IN  loc.diskNamePath # EmptyStr
             => /\ Base(loc.diskNamePath) \in deviceSet
                /\ Base(loc.diskNamePath) \in Devs
                /\ mountpoint[Base(loc.diskNamePath)] = EmptyStr
  /\ \A i \in StepsNamed(LinkStepNames) :
       \A k \in SymlinkCalls(trace[i]) :
         trace[i].calls[k].ok => Base(trace[i].calls[k].path) \in deviceSet

\* a mounted device was configured by an ID that resolves to it, and the
\* matching has returned with assignments for other devices
C6_Witness ==
  /\ MatchReturned
  /\ DOMAIN blockDeviceMap # {}
  /\ \E c \in DOMAIN diskConfig, n \in Devs :
       /\ mountpoint[n] # EmptyStr
       /\ \E id \in diskConfig[c].DeviceIDs :
            ~EvalSymlinks(fs, id).err /\ EvalSymlinks(fs, id).path = DevPath(n)


\* ------------------------------------------------------------------- C7
\* C7: when lsblk fails or the listing of the identifier paths fails, the
\* cycle ends there: that one error event is all it reports,
\* findMatchingDisks has not run, nothing was created or changed in the file
\* system; and the next cycle starts with nothing left of this one.
C7_ListingFailureAbortsCycle ==
  /\ \A i \in StepsNamed(AbortStepNames) :
       /\ i = Len(trace)
       /\ pc = "idle"
       /\ Len(Reported(trace)) = 1
       /\ Reported(trace)[1].kind = "error"
       /\ StepsNamed(MatchStepNames \cup LinkStepNames) = {}
       /\ blockDeviceMap = <<>>
       /\ Calls(trace) = <<>>
       /\ fs = fs0
  /\ pc = "lsblk" =>
       /\ trace = <<>>
       /\ deviceSet = {}
       /\ allDiskIds = <<>>
       /\ blockDeviceMap = <<>>
       /\ matchQueue = <<>>
       /\ linkQueue = <<>>

\* the second cycle of a daemon whose host was left alone ended at the
\* failure of lsblk
C7_Witness ==
  /\ cycles = 2
  /\ pc = "idle"
  /\ StepsNamed({"lsblkFails"}) # {}
  /\ \E c \in DOMAIN diskConfig : diskConfig[c].DeviceNames # {}

\* the cycle ended at the failure of the listing of the identifier paths
C7_WitnessGlob ==
  /\ pc = "idle"
  /\ StepsNamed({"globFails"}) # {}
  /\ deviceSet # {}

\* ------------------------------------------------------------------- C8
\* the events reported so far that are the aggregate "empty list" error
AggregateErrors ==
  {k \in 1..Len(Reported(trace)) :
     /\ Reported(trace)[k].kind = "error"
     /\ Reported(trace)[k].message[1] = "found empty matching device list"}

\* the steps so far that added an assignment
AddingSteps == {i \in 1..Len(trace) : trace[i].added # <<>>}

\* C8: a cycle whose matching adds no assignment in any class reports exactly
\* one aggregate error event and does not run the linking loop: no class
\* directory and no symlink is created; and only such a cycle reports the
\* aggregate event.
C8_EmptyMatchReportedOnce ==
  /\ (pc \in {"link", "idle"} /\ trace # <<>> /\ StepsNamed(AbortStepNames) = {} /\ AddingSteps = {})
       => /\ Cardinality(AggregateErrors) = 1
          /\ trace[Len(trace)].step = "emptyDeviceMap"
          /\ pc = "idle"
          /\ StepsNamed(LinkStepNames) = {}
          /\ \A k \in 1..Len(Calls(trace)) : ~Calls(trace)[k].ok
          /\ fs = fs0
  /\ AggregateErrors # {} => AddingSteps = {}

\* a configuration of two classes matched nothing, and one of its selectors
\* was reported on its own
C8_Witness ==
  /\ pc = "idle"
  /\ Cardinality(DOMAIN diskConfig) = 2
  /\ Cardinality(AggregateErrors) = 1
  /\ Len(Reported(trace)) >= 2


\* ------------------------------------------------------------------- C9
\* C9: a configured directory path that exists but is not a directory is
\* reported by an error event and gets no assignment; a failed directory
\* check is reported and gets no assignment either.
C9_NotADirectoryReported ==
  \A i \in StepsNamed({"matchDir"}) :
    LET st == trace[i]
        error(e) == e.kind = "error"
    IN  /\ (fileExists(fs, st.item) /\ StatKind(fs, st.item) # "dir")
             => (EventsOf(st, error) # {} /\ st.added = <<>>)
        /\ EventsOf(st, error) # {} => st.added = <<>>

\* ------------------------------------------------------------------ C10
\* the shared directory paths of the configuration
ConfiguredDirs ==
  UNION { { Join(rootfsDir, <<diskConfig[c].DirectoryPaths[k]>>) :
              k \in 1..Len(diskConfig[c].DirectoryPaths) } : c \in DOMAIN diskConfig }

\* the os.MkdirAll calls made so far for path
Attempts(path) ==
  {k \in 1..Len(Calls(trace)) :
     Calls(trace)[k].op = "MkdirAll" /\ Calls(trace)[k].path = path}

\* the steps so far in which class c got an assignment for the directory path
DirAssignments(c, path) ==
  {i \in StepsNamed({"matchDir"}) :
     trace[i].class = c /\ trace[i].item = path /\ trace[i].added # <<>>}

\* the path was there, for os.Stat, when step i of the cycle began
ExistedBefore(i, path) ==
  \/ fileExists(fs0, path)
  \/ \E j \in 1..(i - 1) : \E k \in 1..Len(trace[j].calls) :
       /\ trace[j].calls[k].op = "MkdirAll"
       /\ trace[j].calls[k].path = path
       /\ trace[j].calls[k].ok

\* C10 as stated: a configured directory path that does not exist when the
\* cycle starts gets exactly one creation attempt in the cycle and, when it
\* now exists, one assignment in each class that lists it; one that exists
\* as a directory when the cycle starts gets no creation attempt and one
\* assignment in each class that lists it.
C10_OneCreationAttempt ==
  MatchReturned =>
    \A path \in ConfiguredDirs :
      /\ ~fileExists(fs0, path) => Cardinality(Attempts(path)) = 1
      /\ (fileExists(fs0, path) /\ StatKind(fs0, path) = "dir")
           => Cardinality(Attempts(path)) = 0
      /\ (fileExists(fs, path) /\ StatKind(fs, path) = "dir")
           => \A c \in DOMAIN diskConfig :
                (\E k \in 1..Len(diskConfig[c].DirectoryPaths) :
                   Join(rootfsDir, <<diskConfig[c].DirectoryPaths[k]>>) = path)
                => Cardinality(DirAssignments(c, path)) = 1

\* C10, amended: per configured directory entry. An entry whose path does
\* not exist when findMatchingDisks reaches it gets exactly one creation
\* attempt, and one directory assignment if the attempt succeeds, none and an
\* error event if it fails. An entry whose path exists when it is reached (a
\* path created for an earlier entry of the cycle, or in an earlier cycle)
\* gets no creation attempt, and one assignment if the path is a directory
\* and the directory check does not fail. Every configured entry is reached
\* once.
C10_OneAttemptPerEntry ==
  /\ \A i \in StepsNamed({"matchDir"}) :
       LET st == trace[i]
           loc == DiskLocation(EmptyStr, EmptyStr, st.item)
       IN  IF ExistedBefore(i, st.item)
           THEN /\ st.calls = <<>>
                /\ (StatKind(fs, st.item) = "dir" /\ st.reported = <<>>) => st.added = <<loc>>
                /\ st.reported # <<>> => st.added = <<>>
           ELSE /\ Len(st.calls) = 1
                /\ st.calls[1].op = "MkdirAll"
                /\ st.calls[1].path = st.item
                /\ st.calls[1].ok => (st.added = <<loc>> /\ st.reported = <<>>)
                /\ ~st.calls[1].ok => (st.added = <<>> /\ Len(st.reported) = 1)
  /\ MatchReturned =>
       \A c \in DOMAIN diskConfig :
         Cardinality({i \in StepsNamed({"matchDir"}) : trace[i].class = c}) =
           Len(diskConfig[c].DirectoryPaths)

\* the second cycle of a daemon whose host was left alone finds the directory
\* that the first cycle created, attempts nothing and assigns it
C10_Witness ==
  /\ cycles = 2
  /\ hostChanges = 0
  /\ \E i \in StepsNamed({"matchDir"}) :
       /\ fileExists(fs0, trace[i].item)
       /\ trace[i].calls = <<>>
       /\ trace[i].added # <<>>

\* ------------------------------------------------------------------ C11
\* the steps of the linking loop that visit a directory assignment
DirectoryLinkSteps ==
  {i \in StepsNamed(LinkStepNames) :
     trace[i].item.diskNamePath = EmptyStr /\ trace[i].item.directoryPath # EmptyStr}

\* the paths a cycle could make for a directory assignment of class c: its
\* bind path and a link named after the (empty) device path
DirectoryEntries(c, loc) ==
  { bindPathOf([storageClass |-> c, loc |-> loc]),
    JoinNoClean(Join(symlinkLocation, <<c>>), <<Base(loc.diskNamePath)>>) }

\* C11: for a directory assignment, whether its bind path exists or not, the
\* linking loop calls os.Symlink never and creates nothing at the bind path;
\* its only creating call is os.MkdirAll of the class directory; it reports no
\* success event, and no error event but the one of a failed os.MkdirAll of
\* the class directory.
C11_DirectoryAssignmentOnlyClassDir ==
  \A i \in DirectoryLinkSteps :
    LET st == trace[i]
        a == [storageClass |-> st.class, loc |-> st.item]
        success(e) == e.kind = "success"
    IN  /\ SymlinkCalls(st) = {}
        /\ Len(st.calls) = 1
        /\ st.calls[1].op = "MkdirAll"
        /\ st.calls[1].path = symLinkDirPathOf(a)
        /\ EventsOf(st, success) = {}
        /\ st.calls[1].ok => st.reported = <<>>
        /\ st.calls[1].ok => symLinkDirPathOf(a) \in DOMAIN fs
        /\ ~st.calls[1].ok =>
             (Len(st.reported) = 1 /\ st.reported[1].message[2] = symLinkDirPathOf(a))
        /\ \A p \in DirectoryEntries(st.class, st.item) :
             p \in DOMAIN fs => (p \in DOMAIN fs0 /\ fs[p] = fs0[p])

\* one cycle visits a directory assignment whose bind path exists and one
\* whose bind path does not, the class directory made for it
C11_Witness ==
  \E i \in DirectoryLinkSteps, j \in DirectoryLinkSteps :
    /\ trace[i].step = "linkBindExists"
    /\ trace[j].step = "linkAlreadyExists"
    /\ ~fileExists(fs, bindPathOf([storageClass |-> trace[j].class, loc |-> trace[j].item]))
    /\ symLinkDirPathOf([storageClass |-> trace[j].class, loc |-> trace[j].item])
         \notin DOMAIN fs0

\* ------------------------------------------------------------------ C12
\* the steps of the current cycle in which one entry failed: a device ID that
\* does not resolve, a shared directory whose creation failed or that is
\* there as a directory and was not assigned (its check failed), a class
\* directory or a symlink whose creation failed
FailedEntrySteps ==
  {i \in 1..Len(trace) :
     \/ trace[i].step = "matchID" /\ EvalSymlinks(fs, trace[i].item).err
     \/ /\ trace[i].step = "matchDir"
        /\ \/ \E k \in 1..Len(trace[i].calls) : ~trace[i].calls[k].ok
           \/ /\ ExistedBefore(i, trace[i].item)
              /\ StatKind(fs, trace[i].item) = "dir"
              /\ trace[i].added = <<>>
     \/ /\ trace[i].step \in LinkStepNames
        /\ \E k \in 1..Len(trace[i].calls) : ~trace[i].calls[k].ok}

\* the assignments findMatchingDisks returned
NumAssignments ==
  LET RECURSIVE sum(_)
      sum(S) == IF S = {} THEN 0
                ELSE LET c == CHOOSE x \in S : TRUE
                     IN  Len(blockDeviceMap[c]) + sum(S \ {c})
  IN  sum(DOMAIN blockDeviceMap)

\* the cycle has got past both listings
Matching == pc \in {"match", "link"} \/ (pc = "idle" /\ StepsNamed(MatchStepNames) # {})

\* C12: a failure of one entry never ends the cycle. Every failed entry has
\* an error event of its own step; whatever failed, every selector of the
\* configuration is visited by findMatchingDisks and every assignment it
\* returned is visited by the linking loop: the visited and the ones still
\* to visit always add up, and nothing is left to visit when the cycle ends.
C12_EntryFailureIsolated ==
  /\ \A i \in FailedEntrySteps :
       \E k \in 1..Len(trace[i].reported) : trace[i].reported[k].kind = "error"
  /\ Matching =>
       /\ Cardinality(StepsNamed(MatchStepNames)) + Len(matchQueue) = NumSelectors
       /\ pc \in {"link", "idle"} => matchQueue = <<>>
       /\ (pc = "link" \/ (pc = "idle" /\ AggregateErrors = {}))
            => Cardinality(StepsNamed(LinkStepNames)) + Len(linkQueue) = NumAssignments
       /\ pc = "idle" => linkQueue = <<>>

\* a cycle has ended in which a device ID did not resolve and a class
\* directory could not be made, and an assignment visited after both was linked
C12_Witness ==
  /\ pc = "idle"
  /\ \E i \in FailedEntrySteps, j \in FailedEntrySteps, l \in StepsNamed({"linkSymlink"}) :
       /\ trace[i].step = "matchID"
       /\ trace[j].step = "linkMkdirFails"
       /\ j < l

\* ------------------------------------------------------------------ C13
\* the steps of the linking loop that visit a device assignment and get as
\* far as the symlink path
DeviceOutcomeSteps ==
  {i \in StepsNamed({"linkAlreadyExists", "linkSymlink", "linkSymlinkFails"}) :
     trace[i].item.diskNamePath # EmptyStr}

\* the kinds and reasons of the events of a step that name its device
EventTags(st) ==
  { <<st.reported[k].kind, st.reported[k].reason>> :
      k \in {n \in 1..Len(st.reported) : st.reported[n].disk = st.item.diskNamePath} }

\* C13: each of the outcomes already-present, created and failed of a device
\* assignment is reported through an event of its own: the created step
\* reports only the success event, the failed step only the error event, and
\* the already-present step an event that is neither of the two.
C13_OutcomesHaveDistinctEvents ==
  \A i \in DeviceOutcomeSteps :
    LET st == trace[i]
        created == <<"success", "FoundMatchingDisk">>
        failed == <<"error", "ErrorFindingMatchingDisk">>
    IN  /\ st.step = "linkSymlink" => EventTags(st) = {created}
        /\ st.step = "linkSymlinkFails" => EventTags(st) = {failed}
        /\ st.step = "linkAlreadyExists" =>
             (EventTags(st) # {} /\ EventTags(st) \cap {created, failed} = {})

\* ------------------------------------------------------------------ C14
\* the assignments of blockDeviceMap, with their classes
Assignments ==
  UNION { { [storageClass |-> c, loc |-> blockDeviceMap[c][k]] :
              k \in 1..Len(blockDeviceMap[c]) } : c \in DOMAIN blockDeviceMap }

\* a device assignment: a device path and no directory path
IsDeviceLocation(loc) == loc.diskNamePath # EmptyStr /\ loc.directoryPath = EmptyStr

\* a directory assignment: a directory path, no device path, no stable ID
IsDirectoryLocation(loc) ==
  loc.directoryPath # EmptyStr /\ loc.diskNamePath = EmptyStr /\ loc.diskID = EmptyStr

\* C14: every assignment of findMatchingDisks has exactly one of its device
\* path and directory path non-empty: what the name and ID loops add is a
\* device assignment, what the directory loop adds is a directory assignment,
\* and the map holds nothing else.
C14_DeviceOrDirectory ==
  /\ \A a \in Assignments :
       /\ (a.loc.diskNamePath # EmptyStr) # (a.loc.directoryPath # EmptyStr)
       /\ IsDeviceLocation(a.loc) \/ IsDirectoryLocation(a.loc)
  /\ \A i \in StepsNamed({"matchName", "matchID"}) :
       \A k \in 1..Len(trace[i].added) : IsDeviceLocation(trace[i].added[k])
  /\ \A i \in StepsNamed({"matchDir"}) :
       \A k \in 1..Len(trace[i].added) : IsDirectoryLocation(trace[i].added[k])

\* findMatchingDisks returns a device assignment with a stable ID, one
\* without, and a directory assignment
C14_Witness ==
  /\ MatchReturned
  /\ \E a \in Assignments : IsDeviceLocation(a.loc) /\ a.loc.diskID # EmptyStr
  /\ \E a \in Assignments : IsDeviceLocation(a.loc) /\ a.loc.diskID = EmptyStr
  /\ \E a \in Assignments : IsDirectoryLocation(a.loc)

\* ------------------------------------------------------------------ C15
\* the calls of generateBindName made so far
BindNameSteps == StepsNamed({"bindName"})

\* C15 as stated: equal (directory, class) pairs get equal names, and pairs
\* that differ in the directory or in the class get different names (no two
\* of the hashed inputs here are a collision of the 32-bit hash).
C15_NameTellsPairsApart ==
  \A i \in BindNameSteps, j \in BindNameSteps :
    (trace[i].item = trace[j].item /\ trace[i].class = trace[j].class)
      <=> trace[i].added = trace[j].added

\* C15, amended: the name is "local-shared-" and a function of the directory
\* followed by the class, with nothing between them. Equal pairs get equal
\* names; pairs whose directory and class concatenate to the same string get
\* the same name, always; pairs whose concatenations differ get different
\* names (no two of the hashed inputs here are a collision of the hash).
C15_NameTellsConcatenationsApart ==
  \A i \in BindNameSteps, j \in BindNameSteps :
    /\ Len(trace[i].added) = 1
    /\ SubSeq(trace[i].added[1], 1, 13) =
         <<"l", "o", "c", "a", "l", "-", "s", "h", "a", "r", "e", "d", "-">>
    /\ (trace[i].item \o trace[i].class = trace[j].item \o trace[j].class)
         <=> trace[i].added = trace[j].added

\* two pairs that differ in the class only, and got different names
C15_Witness ==
  /\ Len(trace) = 2
  /\ trace[1].step = "bindName" /\ trace[2].step = "bindName"
  /\ trace[1].item = trace[2].item
  /\ trace[1].class # trace[2].class
  /\ trace[1].added # trace[2].added

\* ------------------------------------------------------------------ C16
\* the places in the identifier sequence whose link resolves to a device of
\* the base name of diskName
IdentifiersOf(diskName) ==
  {k \in 1..Len(allDiskIds) :
     /\ ~EvalSymlinks(fs, allDiskIds[k]).err
     /\ Base(EvalSymlinks(fs, allDiskIds[k]).path) = Base(diskName)}

FailedAt(p) ==
  /\ hostChanges = MaxHostChanges
  /\ p \notin DOMAIN fs
  /\ \E i \in StepsNamed({"linkSymlinkFails"}) :
       symLinkPathOf([storageClass |-> trace[i].class, loc |-> trace[i].item]) = p

\* the current cycle made the symlink at p and reported the success event
CreatedAt(p) ==
  /\ fileExists(fs, p)
  /\ \E i \in StepsNamed({"linkSymlink"}) :
       /\ symLinkPathOf([storageClass |-> trace[i].class, loc |-> trace[i].item]) = p
       /\ \E k \in 1..Len(trace[i].reported) :
            /\ trace[i].reported[k].kind = "success"
            /\ trace[i].reported[k].disk = trace[i].item.diskNamePath

\* a device assignment whose symlink was there and resolved when the cycle
\* started takes the already-present branch
PresentLinksSkipped ==
  \A i \in StepsNamed(LinkStepNames) :
    LET st == trace[i]
        p == symLinkPathOf([storageClass |-> st.class, loc |-> st.item])
    IN  (st.item.diskNamePath # EmptyStr /\ fileExists(fs0, p))
        => (st.step = "linkAlreadyExists" /\ st.reported = <<>> /\ SymlinkCalls(st) = {})

InCycle == pc \in {"lsblk", "findNewDisks", "glob", "match", "link"}

\* C18: Run goes through its cycles one at a time. A cycle starts only from
\* the select, between cycles; while a cycle is in progress its steps are the
\* only steps of the daemon; the stop signal ends the process only from the select; a tick whose
\* configuration does not load leaves the file system alone, reports nothing
\* and is back at the select, where the next tick can be taken.
C18_OneCycleAtATime ==
  /\ [][ /\ cycles' # cycles =>
              (pc = "idle" /\ cycles' = cycles + 1 /\ trace' = <<>> /\ fs' = fs)
         /\ InCycle => (cycles' = cycles /\ (InCycle' \/ pc' = "idle"))
         /\ pc' = "exited" => pc \in {"start", "idle"}
         /\ (cycles' # cycles /\ diskConfig' = NoConfig) =>
              (pc' = "idle" /\ Reported(trace') = <<>> /\ Calls(trace') = <<>>)
       ]_vars
  /\ [](pc = "idle" /\ cycles < MaxCycles => ENABLED Tick)

\* a daemon whose first cycle made a link is back at the select after a
\* second tick whose configuration did not load
C18_Witness ==
  /\ pc = "idle"
  /\ cycles >= 2
  /\ hostChanges = 0
  /\ diskConfig = NoConfig
  /\ trace = <<>>
  /\ \E p \in LinkPaths : p \in DOMAIN fs

\* ------------------------------------------------------------------ C19
\* the entries of f at the symlink root and below it
UnderSymlinkRoot(f) ==
  {p \in DOMAIN f :
     Len(p) >= Len(symlinkLocation) /\ SubSeq(p, 1, Len(symlinkLocation)) = symlinkLocation}

\* C19: the symlink tree only grows. No step removes an entry at or below the
\* symlink root or changes what it is: a symlink keeps its target, whatever
\* becomes of its device and of the configuration.
C19_SymlinkTreeAppendOnly ==
  [][ \A p \in UnderSymlinkRoot(fs) : p \in DOMAIN fs' /\ fs'[p] = fs[p] ]_vars

\* a cycle has run to its end past a link of an earlier cycle whose device is
\* mounted or gone, or whose target is gone, or that the configuration no
\* longer selects; the link is as it was
C19_Witness ==
  /\ pc = "idle"
  /\ cycles >= 2
  /\ StepsNamed(MatchStepNames) # {}
  /\ \E c \in Classes, n \in Devs :
       LET p == Join(Join(symlinkLocation, <<c>>), <<n>>)
       IN  /\ p \in DOMAIN fs0
           /\ p \in DOMAIN fs
           /\ fs[p] = fs0[p]
           /\ \/ mountpoint[n] # EmptyStr
              \/ DevPath(n) \notin DOMAIN fs
              \/ ~fileExists(fs, p)
              \/ \A i \in StepsNamed(LinkStepNames) :
                   symLinkPathOf([storageClass |-> trace[i].class, loc |-> trace[i].item]) # p

\* ------------------------------------------------------------------ C20
\* C20: a device assignment whose symlink path held a symlink when the cycle
\* started is treated as already present whether or not the target of the
\* link is still on the host: the already-present branch is taken, os.Symlink
\* is not called and no event is reported.
C20_LinkEntryIsTheMarker ==
  \A i \in StepsNamed(LinkStepNames) :
    LET st == trace[i]
        p == symLinkPathOf([storageClass |-> st.class, loc |-> st.item])
        linkThere == p \in DOMAIN fs0 /\ fs0[p].kind = "link"
    IN  (st.item.diskNamePath # EmptyStr /\ linkThere /\ st.step # "linkMkdirFails")
        => /\ st.step = "linkAlreadyExists"
           /\ SymlinkCalls(st) = {}
           /\ st.reported = <<>>

\* ------------------------------------------------------------------ C21
\* the steps of the linking loop so far that visit a device assignment of
\* class c whose device path has the base name n
DuplicateSteps(c, n) ==
  {i \in StepsNamed(LinkStepNames) :
     /\ trace[i].class = c
     /\ trace[i].item.diskNamePath # EmptyStr
     /\ trace[i].item.diskNamePath[Len(trace[i].item.diskNamePath)] = n}

\* the successful os.Symlink calls of the steps S, as <<step, call>>
CreatedBy(S) ==
  UNION { { <<i, k>> : k \in {j \in SymlinkCalls(trace[i]) : trace[i].calls[j].ok} } : i \in S }

\* the success events of the steps S, as <<step, event>>
SuccessesOf(S) ==
  UNION { { <<i, k>> : k \in {j \in 1..Len(trace[i].reported) :
                                 trace[i].reported[j].kind = "success"} } : i \in S }

\* C21: when a class holds several device assignments of one base name, the
\* symlink is not there when the cycle starts and no creating call of theirs
\* fails, the cycle makes one symlink for the base name, with the target of
\* the first assignment visited, and reports one success event, naming that
\* assignment's device; the assignments visited after it take the
\* already-present branch and report nothing.
C21_DuplicatesCollapse ==
  \A c \in Classes, n \in Devs :
    LET S == DuplicateSteps(c, n)
        p == symlinkLocation \o <<c, n>>
        first == CHOOSE i \in S : \A j \in S : i <= j
        target == IF trace[first].item.diskID # EmptyStr
                  THEN trace[first].item.diskID ELSE trace[first].item.diskNamePath
    IN  ( /\ Cardinality(S) >= 2
          /\ p \notin DOMAIN fs0
          /\ \A i \in S : \A k \in 1..Len(trace[i].calls) : trace[i].calls[k].ok )
        => /\ trace[first].step = "linkSymlink"
           /\ Cardinality(CreatedBy(S)) = 1
           /\ \A ik \in CreatedBy(S) :
                /\ ik[1] = first
                /\ trace[first].calls[ik[2]].path = p
                /\ trace[first].calls[ik[2]].target = target
           /\ p \in DOMAIN fs
           /\ fs[p] = LinkNode(target)
           /\ Cardinality(SuccessesOf(S)) = 1
           /\ \A ik \in SuccessesOf(S) :
                /\ ik[1] = first
                /\ trace[first].reported[ik[2]].disk = trace[first].item.diskNamePath
           /\ \A i \in S \ {first} :
                /\ trace[i].step = "linkAlreadyExists"
                /\ trace[i].reported = <<>>

\* a cycle has ended in which a device matched by name and by ID in one class
\* was linked once, and its second assignment, with another stable
\* identifier or none, found the link
C21_Witness ==
  /\ pc = "idle"
  /\ \E c \in Classes, n \in Devs :
       /\ Cardinality(DuplicateSteps(c, n)) >= 2
       /\ Cardinality(CreatedBy(DuplicateSteps(c, n))) = 1
       /\ symlinkLocation \o <<c, n>> \notin DOMAIN fs0
       /\ \E i \in DuplicateSteps(c, n) : trace[i].step = "linkAlreadyExists"
       /\ \E i \in StepsNamed({"matchName"}), j \in StepsNamed({"matchID"}) :
            /\ trace[i].class = c /\ trace[j].class = c
            /\ trace[i].added # <<>> /\ trace[j].added # <<>>

====
